---------------------------- MODULE Spec2Model ----------------------------
(***************************************************************************)
(* The three TextGrid batch editors (case_converter.py,                    *)
(* space_final_dot.py, textgrid_word_replace.py) as operations on one      *)
(* TextGrid file and its backup <name>.bak.                                *)
(*                                                                         *)
(* A file content is a sequence of tokens.  A token is one character,      *)
(* except the two field openers:                                           *)
(*   "T"  the text  text = "   (what every pattern's  text\s*=\s*"  takes) *)
(*   "O"  the opener of another quoted field, such as  name = "            *)
(*   "Q"  the double quote closing a value       "N"  a line feed          *)
(*   "a" a lowercase letter, "A" an uppercase letter (both \w)             *)
(*   "."  " "  "("  ")"  "-"  "_"  themselves                              *)
(* The regular expressions of the source are evaluated as Python's re      *)
(* evaluates them: leftmost match, greedy quantifiers with backtracking,   *)
(* non-overlapping matches scanned left to right.                          *)
(***************************************************************************)
EXTENDS Integers, Sequences, FiniteSets

VARIABLES
    disk,       \* content of the TextGrid file <name>
    bak,        \* content of <name>.bak, or NoFile
    phase,      \* "start", "ran" (one run done), "reran" (two runs done)
    op,         \* the operation that ran last, "none" before the first
    backupArg,  \* its backup argument
    mapArg,     \* its word_map argument (<<>> for the other operations)
    content,    \* what it read from <name>
    ret,        \* what it returned (the word replacement: the sum of its counts)
    stats,      \* replacements_stats of the word replacement, by entry of word_map
    sub,        \* count1 and count2 of the spacing fix
    log,        \* the files it wrote, in order: [file, data]
    orig,       \* history: the content of <name> before the first run
    \* A run of one tool on a directory (process_directory and its caller):
    tool,       \* "case", "dot" or "word"; "none" where one file is looked at
    args,       \* the command line
    faults,     \* whether file operations may raise in this run
    tree,       \* the directory tree: its entries, in listing order
    pc,         \* "main", "loop" (top of the for loop), "paren", "hyphen" (the word
                \* tool, before that operation), "done"; "idle" where one file is looked at
    exitCode,   \* the exit code of the process, once pc is "done"
    dir_word_map,        \* process_directory's word_map
    \* and its other locals, under their names (total_replacements: dir_total_replacements)
    textgrid_files,
    total_files,
    dir_total_replacements,
    total_parentheses_removed,
    total_hyphens_replaced,
    word_totals,
    file_modified,
    hist        \* history: for each file processed, what its operations returned

fileVars == <<disk, bak, phase, op, backupArg, mapArg, content, ret, stats, sub,
              log, orig>>

dirVars == <<tool, args, faults, tree, pc, exitCode, dir_word_map, textgrid_files,
             total_files, dir_total_replacements, total_parentheses_removed,
             total_hyphens_replaced, word_totals, file_modified, hist>>

vars == <<fileVars, dirVars>>

NoFile == "nofile"

(***************************************************************************)
(* Bounds of the model.                                                    *)
(***************************************************************************)
MaxFields == 2        \* quoted fields of a file
MaxChars == 4         \* characters of all the values of a file
MaxRunChars == 2      \* characters of the value, where two runs follow each other
MaxMap == 2           \* entries of a word mapping

(***************************************************************************)
(* Tokens.                                                                 *)
(***************************************************************************)
HasQuote(t) == t \in {"T", "O", "Q"}
IsWordChar(t) == t \in {"a", "A"}
IsSpace(t) == t \in {" ", "N"}
IsHyphen(t) == t \in {"-", "_"}

Min(S) == CHOOSE x \in S : \A y \in S : x <= y
Max(S) == CHOOSE x \in S : \A y \in S : x >= y

\* The first index k >= i of c with c[k] in S, Len(c) + 1 when there is none.
First(c, i, S) ==
    LET K == {k \in i..Len(c) : c[k] \in S}
    IN  IF K = {} THEN Len(c) + 1 ELSE Min(K)

\* The first index k >= i of c holding a double quote.
FirstQuote(c, i) == First(c, i, {"T", "O", "Q"})

NoMatch == [end |-> 0, rep |-> <<>>]

Lower(t) == IF t = "A" THEN "a" ELSE t
Upper(t) == IF t = "a" THEN "A" ELSE t
LowerSeq(s) == [k \in 1..Len(s) |-> Lower(s[k])]
UpperSeq(s) == [k \in 1..Len(s) |-> Upper(s[k])]


(***************************************************************************)
(* The patterns.  Match_X(c, i, ...) is the match of pattern X that starts *)
(* at index i of c: [end |-> index of its last token, rep |-> what the     *)
(* substitution puts in its place], or NoMatch.  Every pattern starts with *)
(* text\s*=\s*", so a match starts at a "T".  A value holds no double      *)
(* quote, so the quote that ends [^"]* after a value's characters is the   *)
(* "Q" closing that value.                                                 *)
(***************************************************************************)

\* (text\s*=\s*")([^"]*?)(") with the callback case_replace.
MatchCase(c, i, to_lowercase) ==
    LET q == FirstQuote(c, i + 1)
        text == SubSeq(c, i + 1, q - 1)
        new_text == IF to_lowercase THEN LowerSeq(text) ELSE UpperSeq(text)
    IN  IF c[i] = "T" /\ q <= Len(c) /\ c[q] = "Q"
        THEN [end |-> q,
              rep |-> IF new_text # text
                      THEN <<"T">> \o new_text \o <<"Q">>
                      ELSE SubSeq(c, i, q)]
        ELSE NoMatch

\* A variant of MatchWord that does not ask for the closing quote after the
\* wrong word: it replaces the wrong word at the start of any value.
MatchWordPrefix(c, i, wrong_word, correct_word) ==
    LET q == i + Len(wrong_word) + 1
    IN  IF c[i] = "T" /\ q <= Len(c)
           /\ SubSeq(c, i + 1, q - 1) = wrong_word
        THEN [end |-> q - 1, rep |-> <<"T">> \o correct_word]
        ELSE NoMatch

\* (text\s*=\s*") + re.escape(wrong_word) + ("), replaced by \1 correct_word \2.
\* The words hold letters only: nothing the replacement template would expand.
MatchWord(c, i, wrong_word, correct_word) ==
    LET q == i + Len(wrong_word) + 1
    IN  IF c[i] = "T" /\ q <= Len(c) /\ c[q] = "Q"
           /\ SubSeq(c, i + 1, q - 1) = wrong_word
        THEN [end |-> q, rep |-> <<"T">> \o correct_word \o <<"Q">>]
        ELSE NoMatch

\* (text\s*=\s*"[^"\(]*)\([^\)]*\)([^"]*"), replaced by \1\2.
\* [^"\(]* stops at the first quote or "(", which has to be a "(";  [^\)]*
\* runs to the first ")" wherever it is, across quotes and line feeds;
\* [^"]*" runs from there to the next quote.
MatchParen(c, i) ==
    LET p == First(c, i + 1, {"T", "O", "Q", "("})
        r == First(c, p + 1, {")"})
        q == FirstQuote(c, r + 1)
    IN  IF c[i] = "T" /\ p <= Len(c) /\ c[p] = "(" /\ r <= Len(c)
           /\ q <= Len(c) /\ c[q] = "Q"
        THEN [end |-> q, rep |-> SubSeq(c, i, p - 1) \o SubSeq(c, r + 1, q)]
        ELSE NoMatch

\* (text\s*=\s*"[^"]*)[_-]([^"]*"), replaced by \1 \2.
\* The first [^"]* is greedy: the hyphen or underscore matched is the last of
\* the value.
MatchHyphen(c, i) ==
    LET q == FirstQuote(c, i + 1)
        H == {h \in (i + 1)..(q - 1) : IsHyphen(c[h])}
        h == Max(H)
    IN  IF c[i] = "T" /\ q <= Len(c) /\ c[q] = "Q" /\ H # {}
        THEN [end |-> q,
              rep |-> SubSeq(c, i, h - 1) \o <<" ">> \o SubSeq(c, h + 1, q)]
        ELSE NoMatch

\* (text\s*=\s*".*\w)(\.)("), replaced by \1 + " ." + \3.
\* The dot of .* takes any character but a line feed, greedily: the match ends
\* at the last  \w."  of the line the field starts on.
MatchDot1(c, i) ==
    LET e == First(c, i + 1, {"N"})
        D == {d \in (i + 2)..(e - 1) :
                 /\ IsWordChar(c[d - 1]) /\ c[d] = "."
                 /\ d + 1 <= Len(c) /\ c[d + 1] = "Q"}
        d == Max(D)
    IN  IF c[i] = "T" /\ D # {}
        THEN [end |-> d + 1, rep |-> SubSeq(c, i, d - 1) \o <<" ", ".", "Q">>]
        ELSE NoMatch

\* The first index k >= i of c that holds no white space.
SpaceEnd(c, i) == First(c, i, {"T", "O", "Q", "a", "A", ".", "(", ")", "-", "_"})

\* (text\s*=\s*".*\w)(\.)\s+("), replaced by \1 + " ." + \3.
\* .*\w\. stays on the line the field starts on; \s+ takes line feeds too.
MatchDot2(c, i) ==
    LET e == First(c, i + 1, {"N"})
        D == {d \in (i + 2)..(e - 1) :
                 /\ IsWordChar(c[d - 1]) /\ c[d] = "."
                 /\ SpaceEnd(c, d + 1) > d + 1
                 /\ SpaceEnd(c, d + 1) <= Len(c)
                 /\ c[SpaceEnd(c, d + 1)] = "Q"}
        d == Max(D)
    IN  IF c[i] = "T" /\ D # {}
        THEN [end |-> SpaceEnd(c, d + 1),
              rep |-> SubSeq(c, i, d - 1) \o <<" ", ".", "Q">>]
        ELSE NoMatch

PatCase(to_lowercase) == [kind |-> "case", lower |-> to_lowercase]
PatWord(wrong_word, correct_word) ==
    [kind |-> "word", wrong |-> wrong_word, correct |-> correct_word]
PatParen == [kind |-> "paren"]
PatHyphen == [kind |-> "hyphen"]
PatDot1 == [kind |-> "dot1"]
PatDot2 == [kind |-> "dot2"]

MatchAt(pat, c, i) ==
    CASE pat.kind = "case" -> MatchCase(c, i, pat.lower)
      [] pat.kind = "word" -> MatchWord(c, i, pat.wrong, pat.correct)
      [] pat.kind = "paren" -> MatchParen(c, i)
      [] pat.kind = "hyphen" -> MatchHyphen(c, i)
      [] pat.kind = "dot1" -> MatchDot1(c, i)
      [] pat.kind = "dot2" -> MatchDot2(c, i)

\* re.finditer: the non-overlapping matches of pat in c from index i on, left
\* to right, each [start, end, rep].
RECURSIVE MatchesFrom(_, _, _)
MatchesFrom(pat, c, i) ==
    IF i > Len(c) THEN <<>>
    ELSE LET m == MatchAt(pat, c, i)
         IN  IF m.end = 0 THEN MatchesFrom(pat, c, i + 1)
             ELSE <<[start |-> i, end |-> m.end, rep |-> m.rep]>>
                  \o MatchesFrom(pat, c, m.end + 1)

Matches(pat, c) == MatchesFrom(pat, c, 1)

\* len(re.findall(pattern, c))
FindAllCount(pat, c) == Len(Matches(pat, c))

\* re.sub(pattern, replacement, c): every match replaced, the rest copied.
RECURSIVE SubFrom(_, _, _)
SubFrom(pat, c, i) ==
    IF i > Len(c) THEN <<>>
    ELSE LET m == MatchAt(pat, c, i)
         IN  IF m.end = 0 THEN <<c[i]>> \o SubFrom(pat, c, i + 1)
             ELSE m.rep \o SubFrom(pat, c, m.end + 1)

ReSub(pat, c) == SubFrom(pat, c, 1)

(***************************************************************************)
(* What an operation does to the two files.                                *)
(***************************************************************************)

\* A variant of WritesBackupIfAbsent that does not look for an existing backup.
WritesBackupUnchecked(backup) == backup

\* if backup and not os.path.exists(filepath + '.bak'): write content to it.
WritesBackupIfAbsent(backup) == backup /\ bak = NoFile

\* if backup: write content to filepath + '.bak' (the word replacement).
WritesBackupAlways(backup) == backup

\* A variant of BackupData that backs up what the operation computed.
BackupDataModified(read, modified_content) == modified_content

\* What the backup file is given to hold: the content just read.
BackupData(read, modified_content) == read

\* The writes of one call, in the order the code makes them: the backup right
\* after the read, the file itself at the end.
Writes(writesBak, read, modified_content, writesFile) ==
    (IF writesBak
     THEN <<[file |-> "bak", data |-> BackupData(read, modified_content)]>>
     ELSE <<>>)
    \o (IF writesFile THEN <<[file |-> "file", data |-> modified_content]>>
        ELSE <<>>)

\* The file that a sequence of writes leaves, from what it held before.
RECURSIVE After(_, _, _)
After(name, held, ws) ==
    IF ws = <<>> THEN held
    ELSE After(name, IF Head(ws).file = name THEN Head(ws).data ELSE held,
               Tail(ws))

\* One call of an operation on the file: what it read, wrote and returned.
Call(name, backup, word_map, writesBak, modified_content, writesFile, count, word_stats, sub_counts) ==
    LET ws == Writes(writesBak, disk, modified_content, writesFile)
    IN  /\ phase \in {"start", "ran"}
        /\ phase' = IF phase = "start" THEN "ran" ELSE "reran"
        /\ op' = name
        /\ backupArg' = backup
        /\ mapArg' = word_map
        /\ content' = disk
        /\ log' = ws
        /\ bak' = After("bak", bak, ws)
        /\ disk' = After("file", disk, ws)
        /\ ret' = count
        /\ stats' = word_stats
        /\ sub' = sub_counts
        /\ orig' = orig
        /\ UNCHANGED dirVars

(***************************************************************************)
(* case_converter.py                                                       *)
(***************************************************************************)

\* A variant of CaseCount that counts every text field, changed or not.
CaseCountEveryMatch(c, to_lowercase) == FindAllCount(PatCase(to_lowercase), c)

\* The counting loop: the matches whose value the conversion changes.
CaseCount(c, to_lowercase) ==
    LET ms == Matches(PatCase(to_lowercase), c)
    IN  Cardinality({k \in 1..Len(ms) :
                        ms[k].rep # SubSeq(c, ms[k].start, ms[k].end)})

\* if count > 0: write modified_content
CaseWrites(count, c, modified_content) == count > 0

convert_case_in_textgrid(to_lowercase, backup) ==
    LET count == CaseCount(disk, to_lowercase)
        modified_content == ReSub(PatCase(to_lowercase), disk)
    IN  Call(IF to_lowercase THEN "lower" ELSE "upper", backup, <<>>,
             WritesBackupIfAbsent(backup), modified_content,
             CaseWrites(count, disk, modified_content), count, <<>>, <<>>)

(***************************************************************************)
(* space_final_dot.py                                                      *)
(***************************************************************************)

\* if modified_content != content: write modified_content
DotWrites(total_count, c, modified_content) == modified_content # c

fix_space_before_dot(backup) ==
    LET count1 == FindAllCount(PatDot1, disk)
        count2 == FindAllCount(PatDot2, disk)
        modified_content == ReSub(PatDot2, ReSub(PatDot1, disk))
        total_count == count1 + count2
    IN  Call("dot", backup, <<>>, WritesBackupIfAbsent(backup),
             modified_content, DotWrites(total_count, disk, modified_content),
             total_count, <<>>, <<count1, count2>>)

(***************************************************************************)
(* textgrid_word_replace.py                                                *)
(***************************************************************************)

RECURSIVE Sum(_)
Sum(s) == IF s = <<>> THEN 0 ELSE Head(s) + Sum(Tail(s))

\* The loop over word_map.items(), entry k on: each entry counts and replaces
\* in the content the entries before it have rewritten.
\* word_map is the sequence of the dict's items, <<wrong_word, correct_word>>.
RECURSIVE WordLoop(_, _, _, _)
WordLoop(word_map, k, modified_content, replacements_stats) ==
    IF k > Len(word_map)
    THEN [content |-> modified_content, stats |-> replacements_stats]
    ELSE LET pat == PatWord(word_map[k][1], word_map[k][2])
         IN  WordLoop(word_map, k + 1, ReSub(pat, modified_content),
                      Append(replacements_stats,
                             FindAllCount(pat, modified_content)))

\* if total_replacements > 0: write modified_content
WordWrites(total_replacements, c, modified_content) == total_replacements > 0

correct_words_in_textgrid(word_map, backup) ==
    LET r == WordLoop(word_map, 1, disk, <<>>)
        total_replacements == Sum(r.stats)
    IN  Call("word", backup, word_map, WritesBackupAlways(backup), r.content,
             WordWrites(total_replacements, disk, r.content),
             total_replacements, r.stats, <<>>)

\* if count > 0: write modified_content
ParenWrites(count, c, modified_content) == count > 0

remove_parentheses_content(backup) ==
    LET count == FindAllCount(PatParen, disk)
        modified_content == ReSub(PatParen, disk)
    IN  Call("paren", backup, <<>>, WritesBackupIfAbsent(backup),
             modified_content, ParenWrites(count, disk, modified_content),
             count, <<>>, <<>>)

\* A variant of HyphenLoop that makes one pass.
HyphenLoopOnePass(modified_content) == ReSub(PatHyphen, modified_content)

\* while True: substitute; stop when a pass changes nothing.
RECURSIVE HyphenLoop(_)
HyphenLoop(modified_content) ==
    LET temp_content == ReSub(PatHyphen, modified_content)
    IN  IF temp_content = modified_content THEN modified_content
        ELSE HyphenLoop(temp_content)

\* count = occurrences - remaining
HyphenCount(c, modified_content) ==
    FindAllCount(PatHyphen, c) - FindAllCount(PatHyphen, modified_content)

\* if count > 0: write modified_content
HyphenWrites(count, c, modified_content) == count > 0

replace_hyphens_underscores(backup) ==
    LET modified_content == HyphenLoop(disk)
        count == HyphenCount(disk, modified_content)
    IN  Call("hyphen", backup, <<>>, WritesBackupIfAbsent(backup),
             modified_content, HyphenWrites(count, disk, modified_content),
             count, <<>>, <<>>)

(***************************************************************************)
(* The files and the word mappings the operations are run on.              *)
(***************************************************************************)

\* The values of at most k characters of the set chars.
Values(chars, k) == UNION {[1..n -> chars] : n \in 0..k}

\* One quoted field on its line: opener, value, closing quote, line feed.
Line(opener, value) == <<opener>> \o value \o <<"Q", "N">>

\* The files of at most n fields whose values hold at most k characters of
\* chars in all.  A field is a text field or another quoted field.
RECURSIVE Files(_, _, _)
Files(chars, n, k) ==
    {<<>>} \cup
    (IF n = 0 THEN {}
     ELSE UNION {{Line(h, v) \o rest : rest \in Files(chars, n - 1, k - Len(v))} :
                    h \in {"T", "O"}, v \in Values(chars, k)})

CaseChars == {"a", "A"}
DotChars == {"a", ".", " ", "N"}
ParenChars == {"a", "(", ")"}
HyphenChars == {"a", "-", "_"}

\* The wrong and correct words of the lists: stripped, non-empty lines.
Words == {<<"a">>, <<"A">>}

\* word_map: a dict in insertion order, its keys distinct, not empty (an empty
\* one skips the word replacement).
WordMaps ==
    {m \in UNION {[1..n -> Words \X Words] : n \in 1..MaxMap} :
        \A j, k \in 1..Len(m) : j # k => m[j][1] # m[k][1]}

(***************************************************************************)
(* The specifications.                                                     *)
(***************************************************************************)

\* No tool is run on a directory.
DirIdle ==
    /\ tool = "none" /\ args = <<>> /\ faults = FALSE /\ tree = <<>>
    /\ pc = "idle" /\ exitCode = 0
    /\ dir_word_map = <<>> /\ textgrid_files = <<>>
    /\ total_files = 0 /\ dir_total_replacements = 0
    /\ total_parentheses_removed = 0 /\ total_hyphens_replaced = 0
    /\ file_modified = FALSE
    /\ word_totals = <<>> /\ hist = <<>>

FreshFile ==
    /\ bak = NoFile
    /\ phase = "start"
    /\ op = "none"
    /\ backupArg = FALSE
    /\ mapArg = <<>>
    /\ content = <<>>
    /\ ret = 0
    /\ stats = <<>>
    /\ sub = <<>>
    /\ log = <<>>
    /\ orig = disk

Fresh == FreshFile /\ DirIdle

\* Two runs, one after the other, of any of the operations on a file of one
\* field.
Init ==
    /\ disk \in Files(CaseChars, 1, MaxRunChars)
                \cup Files(DotChars, 1, MaxRunChars)
                \cup Files(ParenChars, 1, MaxRunChars)
                \cup Files(HyphenChars, 1, MaxRunChars)
    /\ Fresh

ConvertCase == \E l, b \in BOOLEAN : convert_case_in_textgrid(l, b)
FixSpace == \E b \in BOOLEAN : fix_space_before_dot(b)
CorrectWords == \E m \in WordMaps, b \in BOOLEAN : correct_words_in_textgrid(m, b)
RemoveParentheses == \E b \in BOOLEAN : remove_parentheses_content(b)
ReplaceHyphens == \E b \in BOOLEAN : replace_hyphens_underscores(b)

Next ==
    \/ ConvertCase
    \/ FixSpace
    \/ CorrectWords
    \/ RemoveParentheses
    \/ ReplaceHyphens

Spec == Init /\ [][Next]_vars

\* One run of the word replacement.
InitWord == disk \in Files(CaseChars, MaxFields, MaxChars) /\ Fresh
NextWord == phase = "start" /\ CorrectWords
SpecWord == InitWord /\ [][NextWord]_vars

\* One run of the parenthesis stripping.
InitParen == disk \in Files(ParenChars, MaxFields, MaxChars) /\ Fresh
NextParen == phase = "start" /\ RemoveParentheses
SpecParen == InitParen /\ [][NextParen]_vars

\* One run of the hyphen/underscore folding.
InitHyphen == disk \in Files(HyphenChars, MaxFields, MaxChars) /\ Fresh
NextHyphen == phase = "start" /\ ReplaceHyphens
SpecHyphen == InitHyphen /\ [][NextHyphen]_vars

\* One run of the spacing fix.
InitDot == disk \in Files(DotChars, MaxFields, MaxChars) /\ Fresh
NextDot == phase = "start" /\ FixSpace
SpecDot == InitDot /\ [][NextDot]_vars

\* Two runs of the case converter.
InitCase == disk \in Files(CaseChars, MaxFields, MaxChars) /\ Fresh
NextCase == ConvertCase
SpecCase == InitCase /\ [][NextCase]_vars

(***************************************************************************)
(* One call of an operation on a file of the tree, where a file operation  *)
(* may raise.  c is the content of the file, b its backup or NoFile, fail  *)
(* the place this call raises: "none", "read" (opening or reading the      *)
(* file), "transform" (a regular expression call, after the backup) or     *)
(* "write" (writing the file back).  The except clause of every operation  *)
(* returns 0 (the word replacement: 0 for every word).                     *)
(***************************************************************************)

FailPoints == {"none", "read", "transform", "write"}

\* try: read; write the backup; ...; write the file if asked; return count
\* except Exception: return 0
Handled(c, b, writesBak, modified_content, writesFile, count, fail) ==
    LET b1 == IF writesBak THEN BackupData(c, modified_content) ELSE b
    IN  IF fail = "read"
        THEN [ret |-> 0, content |-> c, bak |-> b, raised |-> TRUE]
        ELSE IF fail = "transform" \/ (writesFile /\ fail = "write")
        THEN [ret |-> 0, content |-> c, bak |-> b1, raised |-> TRUE]
        ELSE [ret |-> count,
              content |-> IF writesFile THEN modified_content ELSE c,
              bak |-> b1, raised |-> FALSE]

CaseOn(c, b, to_lowercase, backup, fail) ==
    LET count == CaseCount(c, to_lowercase)
        modified_content == ReSub(PatCase(to_lowercase), c)
    IN  Handled(c, b, backup /\ b = NoFile, modified_content,
                CaseWrites(count, c, modified_content), count, fail)

DotOn(c, b, backup, fail) ==
    LET total_count == FindAllCount(PatDot1, c) + FindAllCount(PatDot2, c)
        modified_content == ReSub(PatDot2, ReSub(PatDot1, c))
    IN  Handled(c, b, backup /\ b = NoFile, modified_content,
                DotWrites(total_count, c, modified_content), total_count, fail)

ParenOn(c, b, backup, fail) ==
    LET count == FindAllCount(PatParen, c)
        modified_content == ReSub(PatParen, c)
    IN  Handled(c, b, backup /\ b = NoFile, modified_content,
                ParenWrites(count, c, modified_content), count, fail)

HyphenOn(c, b, backup, fail) ==
    LET modified_content == HyphenLoop(c)
        count == HyphenCount(c, modified_content)
    IN  Handled(c, b, backup /\ b = NoFile, modified_content,
                HyphenWrites(count, c, modified_content), count, fail)

\* The word replacement also returns its counts by word: replacements_stats, or
\* {word: 0 for word in word_map} from the except clause.
WordOn(c, b, wm, backup, fail) ==
    LET r == WordLoop(wm, 1, c, <<>>)
        h == Handled(c, b, WritesBackupAlways(backup), r.content,
                     WordWrites(Sum(r.stats), c, r.content), Sum(r.stats), fail)
    IN  [ret |-> h.ret, content |-> h.content, bak |-> h.bak,
         raised |-> h.raised,
         stats |-> IF h.raised THEN [k \in 1..Len(wm) |-> 0] ELSE r.stats]

\* An operation the command line did not ask for.
Skipped(c, b) == [ret |-> 0, content |-> c, bak |-> b, raised |-> FALSE]

(***************************************************************************)
(* load_word_lists                                                         *)
(***************************************************************************)

\* A word list of the command line: None (not given), Missing (a path that is
\* not a file) or the lines of the file.
None == [kind |-> "None", lines |-> <<>>]
Missing == [kind |-> "Missing", lines |-> <<>>]
ListFile(lines) == [kind |-> "file", lines |-> lines]

\* [line.strip() for line in file if line.strip()]: a list file is a sequence
\* of lines, a line a word or blank (<<>>).
RECURSIVE StripLines(_)
StripLines(lines) ==
    IF lines = <<>> THEN <<>>
    ELSE (IF Head(lines) = <<>> THEN <<>> ELSE <<Head(lines)>>)
         \o StripLines(Tail(lines))

\* dict(zip(wrong_words, correct_words)) as the sequence of its items: a key
\* stays where it first came and holds the value that came last.
RECURSIVE DictZip(_, _, _)
DictZip(wrong_words, correct_words, d) ==
    IF wrong_words = <<>> \/ correct_words = <<>> THEN d
    ELSE LET w == Head(wrong_words)
             cw == Head(correct_words)
             K == {k \in 1..Len(d) : d[k][1] = w}
         IN  DictZip(Tail(wrong_words), Tail(correct_words),
                     IF K = {} THEN Append(d, <<w, cw>>)
                     ELSE [d EXCEPT ![Min(K)] = <<w, cw>>])

\* The lengths differ: ValueError, caught, {} returned.
load_word_lists(wrong_words_file, correct_words_file) ==
    LET wrong_words == StripLines(wrong_words_file.lines)
        correct_words == StripLines(correct_words_file.lines)
    IN  IF Len(wrong_words) # Len(correct_words) THEN <<>>
        ELSE DictZip(wrong_words, correct_words, <<>>)

(***************************************************************************)
(* process_directory and the command line in front of it                   *)
(***************************************************************************)

\* glob.glob(os.path.join(directory_path, "*.TextGrid")): the entries of the
\* directory itself whose name ends in .TextGrid and does not start with a dot.
GlobMatches(e) == ~e.sub /\ e.textgrid /\ ~e.hidden

\* os.walk and file.endswith('.TextGrid'): every file of the tree whose name ends
\* in .TextGrid.
WalkMatches(e) == e.textgrid

\* textgrid_files, as indices into the tree: os.walk lists the directory
\* itself before its subdirectories.
ScanDirectory(t, recursive) ==
    LET entries == [i \in 1..Len(t) |-> i]
    IN  IF recursive
        THEN SelectSeq(entries, LAMBDA i : WalkMatches(t[i]) /\ ~t[i].sub)
             \o SelectSeq(entries, LAMBDA i : WalkMatches(t[i]) /\ t[i].sub)
        ELSE SelectSeq(entries, LAMBDA i : GlobMatches(t[i]))

\* The checks of __main__ that end in exit(1).
MainRejects ==
    \/ ~args.dir_ok
    \/ /\ tool = "word"
       /\ \/ (args.wrong_words = None) # (args.correct_words = None)
          \/ args.wrong_words = Missing \/ args.correct_words = Missing
          \/ /\ args.wrong_words = None /\ args.correct_words = None
             /\ ~args.remove_parentheses /\ ~args.replace_hyphens

\* word_map of process_directory.
LoadedWordMap ==
    IF tool = "word" /\ args.wrong_words # None /\ args.correct_words # None
    THEN load_word_lists(args.wrong_words, args.correct_words)
    ELSE <<>>

\* "Impossible de continuer sans listes de mots valides.": return
NothingToDo ==
    /\ tool = "word" /\ args.wrong_words # None /\ args.correct_words # None
    /\ LoadedWordMap = <<>>
    /\ ~args.remove_parentheses /\ ~args.replace_hyphens

\* __main__ and process_directory up to its loop.
Main ==
    /\ pc = "main"
    /\ LET files == ScanDirectory(tree, args.recursive)
           returns == MainRejects \/ NothingToDo \/ files = <<>>
       IN  /\ pc' = IF returns THEN "done" ELSE "loop"
           /\ exitCode' = IF MainRejects THEN 1 ELSE 0
           /\ dir_word_map' = IF MainRejects THEN <<>> ELSE LoadedWordMap
           /\ textgrid_files' = IF MainRejects \/ NothingToDo THEN <<>> ELSE files
           /\ word_totals' = IF returns THEN <<>>
                             ELSE [k \in 1..Len(LoadedWordMap) |-> 0]
    /\ UNCHANGED <<tool, args, faults, tree, total_files, dir_total_replacements,
                   total_parentheses_removed, total_hyphens_replaced,
                   file_modified, hist>>
    /\ UNCHANGED fileVars

\* Where a file operation of this run may raise.
Faults == IF faults THEN FailPoints ELSE {"none"}

\* The file the loop is at: the entry of the tree that filepath names.
Filepath == textgrid_files[Len(hist) + 1]

\* The tree after an operation on its entry i.
Put(t, i, r) == [t EXCEPT ![i].content = r.content, ![i].bak = r.bak]

\* What hist keeps of one iteration of the loop.
Iteration(i) ==
    [file |-> i, count |-> 0, word |-> 0, stats |-> <<>>, paren |-> 0,
     hyphen |-> 0, raised |-> {}, closed |-> FALSE]

Raised(r, name) == IF r.raised THEN {name} ELSE {}

\* if replacements > 0: total_files += 1
CountFile(total, replacements) == IF replacements > 0 THEN total + 1 ELSE total

\* The loop body of case_converter.py and of space_final_dot.py, r what the
\* operation did to the file.
ProcessFile(name, r) ==
    /\ tree' = Put(tree, Filepath, r)
    /\ total_files' = CountFile(total_files, r.ret)
    /\ dir_total_replacements' =
           IF r.ret > 0 THEN dir_total_replacements + r.ret
           ELSE dir_total_replacements
    /\ hist' = Append(hist, [Iteration(Filepath) EXCEPT
                                !.count = r.ret, !.raised = Raised(r, name),
                                !.closed = TRUE])
    /\ UNCHANGED <<tool, args, faults, pc, exitCode, dir_word_map, textgrid_files,
                   total_parentheses_removed, total_hyphens_replaced, word_totals,
                   file_modified>>
    /\ UNCHANGED fileVars

ProcessFileCase ==
    /\ pc = "loop" /\ tool = "case" /\ Len(hist) < Len(textgrid_files)
    /\ \E fail \in Faults :
          \E r \in {CaseOn(tree[Filepath].content, tree[Filepath].bak,
                           args.to_lowercase, args.backup, fail)} :
              ProcessFile("case", r)

ProcessFileDot ==
    /\ pc = "loop" /\ tool = "dot" /\ Len(hist) < Len(textgrid_files)
    /\ \E fail \in Faults :
          \E r \in {DotOn(tree[Filepath].content, tree[Filepath].bak,
                          args.backup, fail)} :
              ProcessFile("dot", r)

\* An operation of the word tool on the file the loop is at, if the command
\* line asks for it.
WordResult(i, fail) ==
    IF dir_word_map # <<>>
    THEN WordOn(tree[i].content, tree[i].bak, dir_word_map, args.backup, fail)
    ELSE [ret |-> 0, content |-> tree[i].content, bak |-> tree[i].bak,
          raised |-> FALSE, stats |-> <<>>]

ParenResult(i, fail) ==
    IF args.remove_parentheses
    THEN ParenOn(tree[i].content, tree[i].bak, args.backup, fail)
    ELSE Skipped(tree[i].content, tree[i].bak)

HyphenResult(i, fail) ==
    IF args.replace_hyphens
    THEN HyphenOn(tree[i].content, tree[i].bak, args.backup, fail)
    ELSE Skipped(tree[i].content, tree[i].bak)

\* The loop body of textgrid_word_replace.py, first part: file_modified = False
\* and the word replacement, r what it did to file i and returned.
WordStep(i, r, file_total) ==
    /\ tree' = Put(tree, i, r)
    /\ file_modified' = (file_total > 0)
    /\ dir_total_replacements' =
           IF file_total > 0 THEN dir_total_replacements + file_total
           ELSE dir_total_replacements
    /\ word_totals' =
           IF file_total > 0
           THEN [k \in 1..Len(word_totals) |-> word_totals[k] + r.stats[k]]
           ELSE word_totals
    /\ hist' = Append(hist, [Iteration(i) EXCEPT
                                !.word = file_total, !.stats = r.stats,
                                !.raised = Raised(r, "word")])
    /\ pc' = "paren"
    /\ UNCHANGED <<tool, args, faults, exitCode, dir_word_map, textgrid_files,
                   total_files, total_parentheses_removed, total_hyphens_replaced>>
    /\ UNCHANGED fileVars

ProcessFileWord ==
    /\ pc = "loop" /\ tool = "word" /\ Len(hist) < Len(textgrid_files)
    /\ \E fail \in Faults :
          \E r \in {WordResult(Filepath, fail)} :
              WordStep(Filepath, r, Sum(r.stats))

\* Second part: remove_parentheses_content, if remove_parentheses.
ParenStep(i, r, parentheses_removed) ==
    /\ tree' = Put(tree, i, r)
    /\ file_modified' = (file_modified \/ parentheses_removed > 0)
    /\ total_parentheses_removed' =
           IF parentheses_removed > 0
           THEN total_parentheses_removed + parentheses_removed
           ELSE total_parentheses_removed
    /\ hist' = [hist EXCEPT ![Len(hist)].paren = parentheses_removed,
                            ![Len(hist)].raised = @ \cup Raised(r, "paren")]
    /\ pc' = "hyphen"
    /\ UNCHANGED <<tool, args, faults, exitCode, dir_word_map, textgrid_files,
                   total_files, dir_total_replacements, total_hyphens_replaced,
                   word_totals>>
    /\ UNCHANGED fileVars

ProcessFileParen ==
    /\ pc = "paren"
    /\ \E fail \in Faults :
          \E r \in {ParenResult(hist[Len(hist)].file, fail)} :
              ParenStep(hist[Len(hist)].file, r, r.ret)

\* total_files at the end of an iteration of the word tool, were every
\* operation that changed the file counted.
CountModifiedPerOperation(total, modified, e) ==
    total + Cardinality({f \in {"word", "paren", "hyphen"} : e[f] > 0})

\* if file_modified: total_files += 1
CountModified(total, modified, e) == IF modified THEN total + 1 ELSE total

\* Third part: replace_hyphens_underscores, if replace_hyphens, and the end
\* of the iteration.
HyphenStep(i, r, hyphens_replaced, modified) ==
    /\ tree' = Put(tree, i, r)
    /\ file_modified' = modified
    /\ total_hyphens_replaced' =
           IF hyphens_replaced > 0
           THEN total_hyphens_replaced + hyphens_replaced
           ELSE total_hyphens_replaced
    /\ \E e \in {[hist[Len(hist)] EXCEPT
                     !.hyphen = hyphens_replaced,
                     !.raised = @ \cup Raised(r, "hyphen"), !.closed = TRUE]} :
          /\ total_files' = CountModified(total_files, modified, e)
          /\ hist' = [hist EXCEPT ![Len(hist)] = e]
    /\ pc' = "loop"
    /\ UNCHANGED <<tool, args, faults, exitCode, dir_word_map, textgrid_files,
                   dir_total_replacements, total_parentheses_removed, word_totals>>
    /\ UNCHANGED fileVars

ProcessFileHyphen ==
    /\ pc = "hyphen"
    /\ \E fail \in Faults :
          \E r \in {HyphenResult(hist[Len(hist)].file, fail)} :
              HyphenStep(hist[Len(hist)].file, r, r.ret,
                         file_modified \/ r.ret > 0)

\* The loop is over: the summary is printed and the process ends.
Summary ==
    /\ pc = "loop" /\ Len(hist) = Len(textgrid_files)
    /\ pc' = "done"
    /\ UNCHANGED <<tool, args, faults, tree, exitCode, dir_word_map, textgrid_files,
                   total_files, dir_total_replacements, total_parentheses_removed,
                   total_hyphens_replaced, word_totals, file_modified, hist>>
    /\ UNCHANGED fileVars

NextDir ==
    \/ Main
    \/ ProcessFileCase
    \/ ProcessFileDot
    \/ ProcessFileWord
    \/ ProcessFileParen
    \/ ProcessFileHyphen
    \/ Summary

(***************************************************************************)
(* The directories and command lines the tools are run on.                 *)
(***************************************************************************)

MaxLines == 2         \* lines of a word list file
MaxEntries == 2       \* entries of a directory tree, where their places vary
MaxFiles == 2         \* files of a directory, where their contents vary

\* An entry of the tree: a regular file, in a subdirectory or in the directory
\* itself, its name starting with a dot or not, ending in .TextGrid or not.
Entry(s, h, t, c) ==
    [sub |-> s, hidden |-> h, textgrid |-> t, content |-> c, bak |-> NoFile]

\* A TextGrid file of the directory itself.
Plain(c) == Entry(FALSE, FALSE, TRUE, c)

SeqsUpTo(S, n) == UNION {[1..k -> S] : k \in 0..n}

\* A file every operation finds something to change in.
Busy == <<"T", "A", "(", ")", "-", "a", ".", "Q", "N">>

\* File contents for a batch.
Samples ==
    { <<"T", "a", "Q", "N">>,
      <<"T", "a", "Q", "N", "T", "A", "(", ")", "-", "a", ".", "Q", "N">> }

\* The command lines of a tool, the word lists among lists.
CommandLines(t, lists, recursives, backups) ==
    LET all == [dir_ok : BOOLEAN, recursive : recursives, backup : backups,
                to_lowercase : BOOLEAN, wrong_words : lists,
                correct_words : lists, remove_parentheses : BOOLEAN,
                replace_hyphens : BOOLEAN]
    IN  IF t = "word" THEN {a \in all : a.to_lowercase}
        ELSE {a \in all : /\ a.wrong_words = None /\ a.correct_words = None
                          /\ ~a.remove_parentheses /\ ~a.replace_hyphens
                          /\ (t = "dot" => a.to_lowercase)}

\* The tool starts.
Start ==
    /\ pc = "main" /\ exitCode = 0
    /\ dir_word_map = <<>> /\ textgrid_files = <<>>
    /\ total_files = 0 /\ dir_total_replacements = 0
    /\ total_parentheses_removed = 0 /\ total_hyphens_replaced = 0
    /\ file_modified = FALSE
    /\ word_totals = <<>> /\ hist = <<>>
    /\ disk = <<>> /\ FreshFile

Tools == {"case", "dot", "word"}

\* Any word lists, on a directory of one file.
InitLoad ==
    /\ tool \in Tools
    /\ args \in CommandLines(tool, {None, Missing} \cup
                             {ListFile(l) : l \in SeqsUpTo(Words \cup {<<>>}, MaxLines)},
                             {FALSE}, BOOLEAN)
    /\ faults = FALSE
    /\ tree = <<Plain(Busy)>>
    /\ Start

SpecLoad == InitLoad /\ [][NextDir]_vars

\* The two list files that load to the word mapping m.
ListsOf(m) ==
    [wrong_words |-> ListFile([k \in 1..Len(m) |-> m[k][1]]),
     correct_words |-> ListFile([k \in 1..Len(m) |-> m[k][2]])]

\* A batch: a directory of files of the sample contents, valid word lists or
\* none, and file operations that may raise.
InitBatch ==
    /\ tool \in Tools
    /\ args \in {a \in CommandLines(tool, {None} \cup
                           {ListFile(l) : l \in SeqsUpTo(Words, MaxMap)},
                       {FALSE}, BOOLEAN) :
                    /\ a.dir_ok
                    /\ \/ a.wrong_words = None /\ a.correct_words = None
                       \/ \E m \in WordMaps :
                             /\ a.wrong_words = ListsOf(m).wrong_words
                             /\ a.correct_words = ListsOf(m).correct_words}
    /\ faults = TRUE
    /\ tree \in {[k \in 1..Len(cs) |-> Plain(cs[k])] : cs \in SeqsUpTo(Samples, MaxFiles)}
    /\ Start

SpecBatch == InitBatch /\ [][NextDir]_vars

\* Any tree of files of one content, in or under the directory, run with or
\* without --recursive.
InitScan ==
    /\ tool \in Tools
    /\ args \in {a \in CommandLines(tool, {None}, BOOLEAN, {TRUE}) : a.dir_ok}
    /\ faults = FALSE
    /\ tree \in SeqsUpTo({Entry(s, h, t, Busy) : s, h, t \in BOOLEAN}, MaxEntries)
    /\ Start

SpecScan == InitScan /\ [][NextDir]_vars

(***************************************************************************)
(* Reading a content as its quoted fields.                                 *)
(***************************************************************************)

\* The fields of a content made of lines  opener value "Q" "N", in order.
RECURSIVE Fields(_)
Fields(c) ==
    IF c = <<>> THEN <<>>
    ELSE LET q == First(c, 2, {"Q"})
         IN  <<[opener |-> c[1], value |-> SubSeq(c, 2, q - 1)]>>
             \o Fields(SubSeq(c, q + 2, Len(c)))

\* c is a sequence of lines  opener value "Q" "N".
RECURSIVE WellFormed(_)
WellFormed(c) ==
    \/ c = <<>>
    \/ LET q == First(c, 2, {"T", "O", "Q"})
       IN  /\ c[1] \in {"T", "O"}
           /\ q + 1 <= Len(c) /\ c[q] = "Q" /\ c[q + 1] = "N"
           /\ WellFormed(SubSeq(c, q + 2, Len(c)))

\* Index i of c lies in the value of a text field.
InTextValue(c, i) ==
    /\ ~HasQuote(c[i])
    /\ \E t \in 1..(i - 1) :
          c[t] = "T" /\ \A k \in (t + 1)..(i - 1) : ~HasQuote(c[k])

WroteFile == \E k \in 1..Len(log) : log[k].file = "file"
WroteBak == \E k \in 1..Len(log) : log[k].file = "bak"

TypeOK ==
    /\ WellFormed(disk) /\ WellFormed(content)
    /\ bak = NoFile \/ WellFormed(bak)
    /\ phase \in {"start", "ran", "reran"}
    /\ ret \in Nat

(***************************************************************************)
(* The claims.                                                             *)
(***************************************************************************)

\* Field k of the content read and field k of the file left differ (or the
\* file left has no field k).
FieldChanged(k) ==
    k > Len(Fields(disk)) \/ Fields(disk)[k] # Fields(content)[k]

\* C1: for every operation and every file, a matched field whose transformed
\* value equals its original value is not counted, and when no field value
\* changes the operation returns 0 and does not write the TextGrid file; also
\* for a word mapping whose wrong word equals its correct word.
C1_NoOpNotCountedNotWritten ==
    op # "none" =>
        /\ ret <= Cardinality({k \in 1..Len(Fields(content)) : FieldChanged(k)})
        /\ disk = content => ret = 0 /\ ~WroteFile

\* C2: whenever an operation writes <name>.bak, what it writes is the content
\* it read from <name>, and it writes it before any write of <name>.
C2_BackupIsContentReadAndFirst ==
    \A k \in 1..Len(log) :
        log[k].file = "bak" =>
            /\ log[k].data = content
            /\ bak = content
            /\ \A j \in 1..(k - 1) : log[j].file # "file"

\* C2 witness: a run that wrote the backup and then a changed file.
C2_Witness ==
    /\ op # "none" /\ WroteBak /\ WroteFile /\ disk # content /\ bak = content

\* C3: with or without backup, the case converter, the spacing fixer, the
\* parenthesis stripping and the hyphen/underscore folding leave an existing
\* <name>.bak as it is; the word replacement run with backup makes <name>.bak
\* the content <name> holds when it starts, whatever <name>.bak held.
C3_BackupKeptOrRewritten ==
    [][/\ (op' \in {"lower", "upper", "dot", "paren", "hyphen"} /\ bak # NoFile)
            => bak' = bak
       /\ (op' = "word" /\ backupArg') => bak' = disk]_vars

\* C3 witness: a second run, of the word replacement, has replaced the backup
\* of the original by the output of the first run.
C3_Witness ==
    /\ phase = "reran" /\ op = "word" /\ backupArg
    /\ content # orig /\ bak = content /\ WroteBak

\* C4: the word replacement changes the value of a text field only if the whole
\* value is a wrong word of the mapping; every other value, every other field
\* and the layout of the file are as they were.
C4_OnlyWholeValuesReplaced ==
    op = "word" =>
        LET f0 == Fields(content)
            f1 == Fields(disk)
        IN  /\ Len(f1) = Len(f0)
            /\ \A k \in 1..Len(f0) :
                  /\ f1[k].opener = f0[k].opener
                  /\ f1[k].value # f0[k].value =>
                        /\ f0[k].opener = "T"
                        /\ \E j \in 1..Len(mapArg) : mapArg[j][1] = f0[k].value

\* s occurs in v as a proper part of it.
ProperPart(s, v) ==
    /\ Len(s) < Len(v)
    /\ \E i \in 0..(Len(v) - Len(s)) : SubSeq(v, i + 1, i + Len(s)) = s

\* C4 witness: a run that replaced one value and left alone a value that only
\* contains the wrong word.
C4_Witness ==
    /\ op = "word" /\ disk # content
    /\ \E k \in 1..Len(Fields(content)) :
          /\ Fields(content)[k].opener = "T"
          /\ ProperPart(mapArg[1][1], Fields(content)[k].value)
          /\ Fields(disk)[k] = Fields(content)[k]

\* C5: after the word replacement every text value that was a wrong word w is
\* map[w], and the count reported for w is the number of text fields whose
\* original value was w; also when a correct word is a later entry's wrong word.
C5_EachWrongWordMapped ==
    op = "word" =>
        LET f0 == Fields(content)
            f1 == Fields(disk)
        IN  \A j \in 1..Len(mapArg) :
               /\ \A k \in 1..Len(f0) :
                     (f0[k].opener = "T" /\ f0[k].value = mapArg[j][1])
                        => (k <= Len(f1) /\ f1[k].value = mapArg[j][2])
               /\ stats[j] =
                     Cardinality({k \in 1..Len(f0) :
                         f0[k].opener = "T" /\ f0[k].value = mapArg[j][1]})

\* The hyphens and underscores inside the text values of c.
TextHyphens(c) == {i \in 1..Len(c) : InTextValue(c, i) /\ IsHyphen(c[i])}

\* The passes of the folding loop over c, the last one (which changes nothing)
\* included.
RECURSIVE HyphenPasses(_)
HyphenPasses(c) ==
    LET temp_content == ReSub(PatHyphen, c)
    IN  IF temp_content = c THEN 1 ELSE 1 + HyphenPasses(temp_content)

\* C6: the hyphen/underscore folding ends, after at most one pass for each
\* hyphen or underscore of the text values and one more; then every hyphen and
\* underscore inside a text value is a space and everything else is as it was,
\* so no text value holds a hyphen or an underscore.
C6_FoldingEndsAndFoldsAll ==
    op = "hyphen" =>
        /\ HyphenPasses(content) <= Cardinality(TextHyphens(content)) + 1
        /\ Len(disk) = Len(content)
        /\ \A i \in 1..Len(content) :
              disk[i] = IF i \in TextHyphens(content) THEN " " ELSE content[i]
        /\ TextHyphens(disk) = {}

\* C6 witness: a run on a text value with two of them ("est_ce_que") and
\* another quoted field with one, which stays.
C6_Witness ==
    /\ op = "hyphen" /\ WroteFile
    /\ \E k \in 1..Len(Fields(content)) :
          /\ Fields(content)[k].opener = "T"
          /\ Cardinality({i \in 1..Len(Fields(content)[k].value) :
                            IsHyphen(Fields(content)[k].value[i])}) >= 2
    /\ \E k \in 1..Len(Fields(disk)) :
          /\ Fields(disk)[k].opener = "O"
          /\ \E i \in 1..Len(Fields(disk)[k].value) :
                IsHyphen(Fields(disk)[k].value[i])

\* C7: the hyphen/underscore folding returns the number of hyphens and
\* underscores it replaced by spaces (2 for the one field "est_ce_que").
C7_CountIsCharactersReplaced ==
    op = "hyphen" => ret = Cardinality(TextHyphens(content))

\* s is t with some of its characters taken out.
RECURSIVE IsSubseq(_, _)
IsSubseq(s, t) ==
    IF s = <<>> THEN TRUE
    ELSE IF t = <<>> THEN FALSE
    ELSE IF Head(s) = Head(t) THEN IsSubseq(Tail(s), Tail(t))
    ELSE IsSubseq(s, Tail(t))

\* C8: the parenthesis stripping only takes characters out of text values:
\* the fields, their openers and closing quotes and every other field are as
\* they were, also for a value with a "(" and no ")" after it.
C8_OnlyInsideOneValue ==
    op = "paren" =>
        LET f0 == Fields(content)
            f1 == Fields(disk)
        IN  /\ Len(f1) = Len(f0)
            /\ \A k \in 1..Len(f0) :
                  /\ k <= Len(f1) => f1[k].opener = f0[k].opener
                  /\ k <= Len(f1) => IsSubseq(f1[k].value, f0[k].value)
                  /\ (k <= Len(f1) /\ f0[k].opener = "O")
                        => f1[k].value = f0[k].value

\* The (...) spans of a value, left to right, none overlapping another.
RECURSIVE SpanCount(_)
SpanCount(v) ==
    LET p == First(v, 1, {"("})
        r == First(v, p + 1, {")"})
    IN  IF r > Len(v) THEN 0 ELSE 1 + SpanCount(SubSeq(v, r + 1, Len(v)))

RECURSIVE TextSpans(_)
TextSpans(fs) ==
    IF fs = <<>> THEN 0
    ELSE (IF Head(fs).opener = "T" THEN SpanCount(Head(fs).value) ELSE 0)
         + TextSpans(Tail(fs))

\* C9: one run of the parenthesis stripping removes every (...) span of every
\* text value and returns how many it removed: no text value holds a span
\* afterwards.
C9_EverySpanRemoved ==
    op = "paren" =>
        /\ TextSpans(Fields(disk)) = 0
        /\ ret = TextSpans(Fields(content))

\* v ends in a word character and a period.
EndsWordDot(v) ==
    Len(v) >= 2 /\ v[Len(v)] = "." /\ IsWordChar(v[Len(v) - 1])

\* v without the white space it ends in.
Stripped(v) ==
    LET K == {k \in 1..Len(v) : ~IsSpace(v[k])}
    IN  IF K = {} THEN <<>> ELSE SubSeq(v, 1, Max(K))

\* v ends in a word character, a period and white space.
EndsWordDotSpace(v) == Stripped(v) # v /\ EndsWordDot(Stripped(v))

\* v, which ends in a period, with a space put before that period.
SpaceBeforeDot(v) == SubSeq(v, 1, Len(v) - 1) \o <<" ", ".">>

\* The text fields of the content read whose value P holds of.
TextFieldsWith(P(_)) ==
    {k \in 1..Len(Fields(content)) :
        Fields(content)[k].opener = "T" /\ P(Fields(content)[k].value)}

\* C10: the spacing fix turns a text value ending in <word>. into one ending in
\* <word> . and a text value ending in <word>. and white space into the same
\* form, the white space dropped; it returns count1 + count2, where count1
\* counts the fields of the first kind and count2 those of the second, no field
\* in both; and it writes the file exactly when that total is greater than 0.
C10_SpacingFixed ==
    op = "dot" =>
        LET f0 == Fields(content)
            f1 == Fields(disk)
        IN  /\ Len(f1) = Len(f0)
            /\ \A k \in TextFieldsWith(EndsWordDot) :
                  f1[k].value = SpaceBeforeDot(f0[k].value)
            /\ \A k \in TextFieldsWith(EndsWordDotSpace) :
                  f1[k].value = SpaceBeforeDot(Stripped(f0[k].value))
            /\ sub[1] = Cardinality(TextFieldsWith(EndsWordDot))
            /\ sub[2] = Cardinality(TextFieldsWith(EndsWordDotSpace))
            /\ ret = sub[1] + sub[2]
            /\ WroteFile <=> ret > 0

\* The text fields of c whose value is not what the conversion makes of it.
CaseDiffering(c, to_lowercase) ==
    {k \in 1..Len(Fields(c)) :
        /\ Fields(c)[k].opener = "T"
        /\ Fields(c)[k].value #
              (IF to_lowercase THEN LowerSeq(Fields(c)[k].value)
               ELSE UpperSeq(Fields(c)[k].value))}

\* C11: a run of the case converter returns the number of text fields whose
\* value differs from its lowercased (uppercased) form, and a run in the same
\* direction as the run before it returns 0, writes nothing and leaves the file
\* as it is.
C11_CaseIdempotent ==
    [][/\ op' \in {"lower", "upper"}
            => ret' = Cardinality(CaseDiffering(disk, op' = "lower"))
       /\ (op' \in {"lower", "upper"} /\ op' = op)
            => (ret' = 0 /\ disk' = disk /\ log' \in {<<>>, <<[file |-> "bak", data |-> disk]>>})]_vars

\* C11 witness: a second lowercasing after a first one that changed the file.
C11_Witness ==
    /\ phase = "reran" /\ op = "lower" /\ ret = 0 /\ ~WroteFile
    /\ content # orig /\ CaseDiffering(orig, TRUE) # {}
    /\ CaseDiffering(content, TRUE) = {}

\* The word tool was given two word list files that differ in their number of
\* lines, blank lines counted or not.
ListsMismatch ==
    /\ tool = "word" /\ args.dir_ok
    /\ args.wrong_words.kind = "file" /\ args.correct_words.kind = "file"
    /\ Len(args.wrong_words.lines) # Len(args.correct_words.lines)
    /\ Len(StripLines(args.wrong_words.lines))
           # Len(StripLines(args.correct_words.lines))

\* No operation was called on a file of the tree, and none holds anything but
\* what it held at the start.
NoFileTouched ==
    /\ hist = <<>>
    /\ \A i \in 1..Len(tree) : tree[i].bak = NoFile

\* C12: when the wrong-word and the correct-word list have different line
\* counts, the word tool ends with exit code 1 and has read, backed up and
\* written no TextGrid file, whether or not --remove-parentheses or
\* --replace-hyphens is set.
C12_MismatchAbortsBeforeFiles ==
    (ListsMismatch /\ pc = "done") => (exitCode = 1 /\ NoFileTouched)

\* The part of C12 that holds: with neither flag set, a mismatch ends the run
\* before any file is looked at (with exit code 0).
C12_MismatchAloneTouchesNothing ==
    (ListsMismatch /\ pc = "done" /\ ~args.remove_parentheses
        /\ ~args.replace_hyphens) => NoFileTouched

\* The sum of field f over the iterations h.
RECURSIVE Total(_, _)
Total(h, f) == IF h = <<>> THEN 0 ELSE Head(h)[f] + Total(Tail(h), f)

\* An iteration in which no operation raised.
Clean(e) == e.raised = {}

\* An iteration in which some operation returned a count greater than 0.
Changed(e) == e.count > 0 \/ e.word > 0 \/ e.paren > 0 \/ e.hyphen > 0

\* The totals hold nothing of the files an operation raised on.
FailingFilesCountZero ==
    /\ total_files = Cardinality({k \in 1..Len(hist) : Clean(hist[k]) /\ Changed(hist[k])})
    /\ dir_total_replacements = Total(SelectSeq(hist, Clean), "count")
                                  + Total(SelectSeq(hist, Clean), "word")
    /\ total_parentheses_removed = Total(SelectSeq(hist, Clean), "paren")
    /\ total_hyphens_replaced = Total(SelectSeq(hist, Clean), "hyphen")

\* Every file found was taken through the loop.
EveryFileProcessed ==
    /\ Len(hist) = Len(textgrid_files)
    /\ \A k \in 1..Len(hist) : hist[k].closed /\ hist[k].file = textgrid_files[k]

\* C13: an exception in an operation on one file is caught, every file of the
\* batch is still processed, and a file an operation raised on adds nothing to
\* the files modified nor to any replacement total, also where another
\* operation of the word tool then succeeds on that file.
C13_FailingFileLeavesTotals ==
    pc = "done" => (EveryFileProcessed /\ FailingFilesCountZero)

\* The part of C13 that holds: every file is processed, and in the tools of one
\* operation per file a failing file adds nothing.
C13_OneOperationPerFile ==
    pc = "done" => (EveryFileProcessed /\ (tool # "word" => FailingFilesCountZero))

\* The entries of the tree that are .TextGrid files.
TextGridFiles == {i \in 1..Len(tree) : tree[i].textgrid}

\* The run was not refused by the command line checks and is past the scan.
Scanned == pc \in {"loop", "paren", "hyphen", "done"} /\ exitCode = 0

\* The candidate files of the run.
Candidates == {textgrid_files[k] : k \in 1..Len(textgrid_files)}

\* Every .TextGrid file of the tree is in a subdirectory.
OnlyInSubdirectories == \A i \in TextGridFiles : tree[i].sub

\* The first part of C14: with every .TextGrid file in a subdirectory, a
\* non-recursive run finds nothing, ends without error and touches no file; a
\* recursive run takes every .TextGrid file through the loop exactly once.
C14_SubdirectoriesOnly ==
    (Scanned /\ OnlyInSubdirectories) =>
        /\ ~args.recursive =>
              /\ textgrid_files = <<>> /\ pc = "done" /\ NoFileTouched
              /\ \A i \in 1..Len(tree) : tree[i].content = Busy
        /\ args.recursive =>
              /\ Candidates = TextGridFiles
              /\ Len(textgrid_files) = Cardinality(TextGridFiles)
              /\ pc = "done" =>
                    \A i \in TextGridFiles :
                        Cardinality({k \in 1..Len(hist) : hist[k].file = i}) = 1

\* C14: with every .TextGrid file in a subdirectory a non-recursive run finds
\* no candidate, ends without processing or error and touches no file, and a
\* recursive run processes every .TextGrid file of the tree exactly once; in
\* general the candidates of a non-recursive run are exactly the .TextGrid
\* files directly in the target directory.
C14_ScanFindsTheFiles ==
    /\ C14_SubdirectoriesOnly
    /\ (Scanned /\ ~args.recursive) =>
           Candidates = {i \in TextGridFiles : ~tree[i].sub}

\* The general part of C14 holds of the files whose name does not start with a
\* dot.
C14_NonRecursiveButHidden ==
    (Scanned /\ ~args.recursive) =>
        Candidates = {i \in TextGridFiles : ~tree[i].sub /\ ~tree[i].hidden}

\* The iterations of the loop that are over.
Processed == SelectSeq(hist, LAMBDA e : e.closed)

\* C15: at every point of the per-file loop and at the summary, total_files is
\* the number of processed files for which some operation returned a count
\* greater than 0, each counted once, and is at most the number of files
\* scanned; each replacement total is the sum of the counts its operation
\* returned file by file; the per-word totals of the word tool sum to its total
\* of word replacements.
C15_TotalsAggregatePerFileCounts ==
    (pc \in {"loop", "paren", "hyphen", "done"} /\ textgrid_files # <<>>) =>
        /\ total_files = Cardinality({k \in 1..Len(Processed) : Changed(Processed[k])})
        /\ total_files <= Len(textgrid_files)
        /\ dir_total_replacements = Total(hist, "count") + Total(hist, "word")
        /\ total_parentheses_removed = Total(hist, "paren")
        /\ total_hyphens_replaced = Total(hist, "hyphen")
        /\ Len(word_totals) = Len(dir_word_map)
        /\ Sum(word_totals) = (IF tool = "word" THEN dir_total_replacements ELSE 0)
        /\ \A k \in 1..Len(hist) : Sum(hist[k].stats) = hist[k].word

\* The summary of a batch of two files: several operations changed the first,
\* none changed the second, and one file is counted.
C15_Witness ==
    /\ pc = "done" /\ tool = "word" /\ Len(hist) = 2
    /\ hist[1].word > 0 /\ hist[1].paren > 0 /\ hist[1].hyphen > 0
    /\ ~Changed(hist[2])
    /\ total_files = 1
    /\ dir_total_replacements = hist[1].word

=============================================================================
